---- MODULE Spec2Model ----
(***************************************************************************)
(* mdtick: Markdown checklist progress tracker.                            *)
(*                                                                         *)
(* The repository holds three entry points that share one parser:          *)
(*   "md_dashboard"  src/md_dashboard/cli.py + dashboard.py (animated,     *)
(*                   table, HTML export through a template)                *)
(*   "mdtick"        src/mdtick.py (animated, table, HTML export of the    *)
(*                   recorded console)                                     *)
(*   "archive"       src/archive/dashboard.py (plain 40-wide text bars)    *)
(*                                                                         *)
(* Text is a sequence of one-character strings; a file is a record of its  *)
(* existence, its readability and its text.                                *)
(*                                                                         *)
(* The specifications share the variables:                                 *)
(*   SpecParse   parse_checklist applied to one file (a pure function)     *)
(*   SpecRender  the per-row rendering applied to one (done, total)        *)
(*   SpecHtml    the template substitution of create_html_dashboard        *)
(*   Spec        a whole run of an entry point                             *)
(*   SpecScan    a run of the scanner, scan.py                             *)
(***************************************************************************)
EXTENDS Integers, Sequences, FiniteSets, TLC

VARIABLES
    prog,           \* the entry point that runs
    requested_view, \* --view as given on the command line (default "animated")
    view,           \* args.view
    html_output,    \* --html-output / --export-html given
    template_file,  \* --template-file: "none", "readable" or "unreadable"
    css_file,       \* --css-file: "none", "readable" or "unreadable"
    config_file,    \* [exists, lines]: the config file on disk
    fs,             \* path -> [exists, readable, content]
    output_file,    \* the output file: "absent", "old" or "written"
    output_text,    \* the text written to the output file
    walk,           \* scan.py: the paths of the files under the folder, in os.walk order
    pc,             \* position of the run
    markdown_paths, \* the list load_markdown_paths returned
    idx,            \* index of the for loop over markdown_paths / tasks
    parsed,         \* done, total, title of the last parse_checklist call
    rows,           \* rows added to the table / rows_html / printed bars
    tasks,          \* animated mode: the progress bars
    console,        \* messages shown to the user, in order
    exit_status     \* process exit status, -1 while running

vars == <<prog, requested_view, view, html_output, template_file, css_file, config_file, fs,
          output_file, output_text, walk, pc, markdown_paths, idx, parsed, rows, tasks, console,
          exit_status>>

Progs == {"md_dashboard", "mdtick", "archive"}

(***************************************************************************)
(* Bounds of the model.                                                    *)
(***************************************************************************)
MaxLines == 3        \* lines of a parsed file (SpecParse)
MaxTotal == 21       \* checklist items of a rendered file (SpecRender)
MaxConfigLines == 3  \* lines of the config file (Spec)

(***************************************************************************)
(* Text helpers.                                                           *)
(***************************************************************************)
NL == "\n"
Whitespace == {" ", "\t", NL}

RECURSIVE lstrip(_)
lstrip(s) == IF s # <<>> /\ Head(s) \in Whitespace THEN lstrip(Tail(s)) ELSE s

RECURSIVE rstrip(_)
rstrip(s) ==
    IF s # <<>> /\ s[Len(s)] \in Whitespace
    THEN rstrip(SubSeq(s, 1, Len(s) - 1))
    ELSE s

\* str.strip()
strip(s) == rstrip(lstrip(s))

RECURSIVE rfind(_, _, _)
\* str.rfind(c), scanning down from index i; 0 when absent (1-based indices)
rfind(s, c, i) == IF i = 0 THEN 0 ELSE IF s[i] = c THEN i ELSE rfind(s, c, i - 1)

\* PurePath.name: the last component of the path
PathName(p) == SubSeq(p, rfind(p, "/", Len(p)) + 1, Len(p))

\* PurePath.stem: the name without its last suffix; a leading or a trailing
\* dot starts no suffix
Stem(p) ==
    LET name == PathName(p)
        i == rfind(name, ".", Len(name))
    IN  IF 1 < i /\ i < Len(name) THEN SubSeq(name, 1, i - 1) ELSE name

(***************************************************************************)
(* parse_checklist                                                         *)
(***************************************************************************)
\* the regular expression  - \[( |x)\]   followed by a space, matched at i
MarkerAt(s, i) ==
    /\ i + 5 <= Len(s)
    /\ s[i] = "-"
    /\ s[i + 1] = " "
    /\ s[i + 2] = "["
    /\ s[i + 3] \in {" ", "x"}
    /\ s[i + 4] = "]"
    /\ s[i + 5] = " "

RECURSIVE findall(_, _)
\* re.findall: the group of every match, left to right, matches not overlapping
findall(s, i) ==
    IF i > Len(s) THEN <<>>
    ELSE IF MarkerAt(s, i) THEN <<s[i + 3]>> \o findall(s, i + 6)
    ELSE findall(s, i + 1)

all_tasks(content) == findall(content, 1)

\* a plausible slip: done counted by its own looser pattern \[x\]
count_done_loose(content) ==
    Cardinality({i \in 1..Len(content) :
        /\ i + 2 <= Len(content)
        /\ content[i] = "["
        /\ content[i + 1] = "x"
        /\ content[i + 2] = "]"})

\* done = sum(1 for t in all_tasks if t == "x")
count_done(content) ==
    LET all == all_tasks(content)
    IN  Cardinality({k \in 1..Len(all) : all[k] = "x"})

\* total = len(all_tasks)
count_total(content) == Len(all_tasks(content))

\* ^ under re.MULTILINE: the start of the text or just after a newline
LineStart(s, i) == i = 1 \/ s[i - 1] = NL

RECURSIVE LineEnd(_, _)
\* index of the last character of the line that holds index i
LineEnd(s, i) == IF i > Len(s) \/ s[i] = NL THEN i - 1 ELSE LineEnd(s, i + 1)

\* ^# (.+) matches at i: '#', a space and at least one character that is
\* not a newline
HeadingAt(s, i) ==
    /\ LineStart(s, i)
    /\ i + 2 <= Len(s)
    /\ s[i] = "#"
    /\ s[i + 1] = " "
    /\ s[i + 2] # NL

NoMatch == [matched |-> FALSE, group1 |-> <<>>]

RECURSIVE re_search_title(_, _)
\* re.search(r"^# (.+)", content, re.MULTILINE): the leftmost match; the
\* greedy group runs to the end of the line
re_search_title(s, i) ==
    IF i > Len(s) THEN NoMatch
    ELSE IF HeadingAt(s, i)
         THEN [matched |-> TRUE, group1 |-> SubSeq(s, i + 2, LineEnd(s, i + 2))]
         ELSE re_search_title(s, i + 1)

title_match(content) == re_search_title(content, 1)

\* Python's None, as a title
None == <<"None">>

\* the fallback of the title: file_path.stem, and None in archive/dashboard.py
TitleFallback(pr, file_path) == IF pr = "archive" THEN None ELSE Stem(file_path)

\* title = title_match.group(1).strip() if title_match else <fallback>
extract_title(pr, file_path, content) ==
    LET m == title_match(content)
    IN  IF m.matched THEN strip(m.group1) ELSE TitleFallback(pr, file_path)

NoResult == [raised |-> FALSE, done |-> 0, total |-> 0, title |-> <<>>]

\* parse_checklist(file_path): open() raises on a file that cannot be read or
\* decoded, and nothing in parse_checklist catches it
parse_checklist(pr, file_path) ==
    LET f == fs[file_path]
    IN  IF ~f.exists \/ ~f.readable
        THEN [raised |-> TRUE, done |-> 0, total |-> 0, title |-> <<>>]
        ELSE [raised |-> FALSE,
              done   |-> count_done(f.content),
              total  |-> count_total(f.content),
              title  |-> extract_title(pr, file_path, f.content)]

(***************************************************************************)
(* Rendering of one parsed file.  A float is modelled by the exact         *)
(* rational [num, den]; for total < 400 Python's (done / total) * 100 // 5 *)
(* equals the exact floor.  The text "{percent:.1f}%" is not modelled: the *)
(* percent cell of a row holds the number.                                 *)
(***************************************************************************)
BarWidth == 20            \* "-" * (20 - bar_len)
PercentPerSegment == 5    \* percent // 5
bar_length == 40          \* show_progress(..., bar_length: int = 40)

FULL == "#"               \* stands for the block character of a filled segment
Dash == <<"-">>
EmDash == <<"--">>        \* stands for the em dash of the HTML placeholder row

ZeroDivisionError == [err |-> TRUE, num |-> 0, den |-> 1]

\* a / b on numbers: raises ZeroDivisionError when b is 0
TrueDiv(a, b) == IF b = 0 THEN ZeroDivisionError ELSE [err |-> FALSE, num |-> a, den |-> b]

\* q * k
Times(q, k) == [q EXCEPT !.num = @ * k]

\* int(q // k) for q >= 0, k > 0
FloorDivInt(q, k) == q.num \div (q.den * k)

\* a plausible slip: the guard on total is forgotten
percent_unguarded(done, total) == Times(TrueDiv(done, total), 100)

\* percent = (done / total) * 100 if total else 0
percent_of(done, total) ==
    IF total # 0 THEN Times(TrueDiv(done, total), 100)
    ELSE [err |-> FALSE, num |-> 0, den |-> 1]

\* a plausible slip: the fill rounded up instead of down
bar_len_ceil(percent) ==
    (percent.num + percent.den * PercentPerSegment - 1)
        \div (percent.den * PercentPerSegment)

\* bar_len = int(percent // 5)
bar_len_of(percent) == FloorDivInt(percent, PercentPerSegment)

\* c * n on strings: empty when n <= 0
Repeat(c, n) == [k \in 1..n |-> c]

\* bar = FULL * bar_len + "-" * (20 - bar_len)
table_bar(percent) ==
    Repeat(FULL, bar_len_of(percent)) \o Repeat("-", BarWidth - bar_len_of(percent))

RECURSIVE str(_)
\* str(n) for n >= 0: the decimal digits
str(n) ==
    LET d == <<"0", "1", "2", "3", "4", "5", "6", "7", "8", "9">>
    IN  IF n < 10 THEN <<d[n + 1]>> ELSE str(n \div 10) \o <<d[(n % 10) + 1]>>

NoPercent == [err |-> FALSE, num |-> 0, den |-> 0]  \* the cell "-" of a placeholder row
RaisedRow == [kind |-> "raised", title |-> <<>>, done |-> <<>>, total |-> <<>>,
              progress |-> <<>>, bar |-> <<>>, percent |-> ZeroDivisionError]

\* table.add_row(f"[red]... {md_path.name}[/red]", "-", "-", "-", "-")
table_missing_row(md_path) ==
    [kind |-> "missing", title |-> PathName(md_path), done |-> Dash, total |-> Dash,
     progress |-> Dash, bar |-> Dash, percent |-> NoPercent]

\* the placeholder <tr> of create_html_dashboard
html_missing_row(md_path) ==
    [kind |-> "missing", title |-> PathName(md_path), done |-> Dash, total |-> Dash,
     progress |-> EmDash, bar |-> EmDash, percent |-> NoPercent]

\* table.add_row(title, str(done), str(total), f"[{bar}]", f"{percent:.1f}%");
\* mdtick.py adds the bar without the brackets
table_row(pr, p) ==
    LET percent == percent_of(p.done, p.total)
    IN  IF percent.err THEN RaisedRow
        ELSE [kind |-> "row", title |-> p.title, done |-> str(p.done),
              total |-> str(p.total),
              progress |-> IF pr = "md_dashboard"
                           THEN <<"[">> \o table_bar(percent) \o <<"]">>
                           ELSE table_bar(percent),
              bar |-> table_bar(percent),
              percent |-> percent]

\* the <tr> of a parsed file in create_html_dashboard
html_row(p) ==
    LET percent == percent_of(p.done, p.total)
    IN  IF percent.err THEN RaisedRow
        ELSE [kind |-> "row", title |-> p.title, done |-> str(p.done),
              total |-> str(p.total), progress |-> table_bar(percent),
              bar |-> table_bar(percent), percent |-> percent]

CHECKLIST_PROGRESS == <<"Checklist Progress">>

\* show_progress(done, total, title): the heading and the 40-wide bar line
show_progress(p) ==
    LET percent == percent_of(p.done, p.total)
        filled_length == IF p.total # 0 THEN (bar_length * p.done) \div p.total ELSE 0
        bar == Repeat(FULL, filled_length) \o Repeat("-", bar_length - filled_length)
    IN  IF percent.err THEN RaisedRow
        ELSE [kind |-> "bar",
              title |-> IF p.title # None /\ p.title # <<>> THEN p.title
                        ELSE CHECKLIST_PROGRESS,
              done |-> str(p.done), total |-> str(p.total),
              progress |-> <<"[">> \o bar \o <<"]">>, bar |-> bar,
              percent |-> percent]

\* a message shown to the user
Msg(m, arg) == [msg |-> m, arg |-> arg]

\* an exception nothing catches: the interpreter prints the traceback and
\* exits with status 1
Traceback(e) == Msg("Traceback", <<e>>)

(***************************************************************************)
(* The HTML page of create_html_dashboard.  The literal markup of a row is *)
(* modelled by one element per tag; the texts put into it are characters.  *)
(* "{percent:.1f}" is the exact rational rounded half-even to one decimal  *)
(* (the float agrees for the totals of the model).                         *)
(***************************************************************************)
CSS_TOKEN  == <<"{", "{", " ", "C", "S", "S", " ", "}", "}">>
ROWS_TOKEN == <<"{", "{", " ", "T", "A", "B", "L", "E", "_", "R", "O", "W", "S", " ", "}", "}">>

\* old occurs in s at index i
MatchAt(s, old, i) ==
    /\ i + Len(old) - 1 <= Len(s)
    /\ SubSeq(s, i, i + Len(old) - 1) = old

RECURSIVE replace_from(_, _, _, _)
\* str.replace from index i on: every occurrence, left to right, not overlapping
replace_from(s, old, new, i) ==
    IF i > Len(s) THEN <<>>
    ELSE IF MatchAt(s, old, i) THEN new \o replace_from(s, old, new, i + Len(old))
    ELSE <<s[i]>> \o replace_from(s, old, new, i + 1)

\* s.replace(old, new), old not empty
replace(s, old, new) == replace_from(s, old, new, 1)

\* template_content.replace("{{ CSS }}", css_content)
\*                 .replace("{{ TABLE_ROWS }}", table_rows)
final_html_of(template_content, css_content, table_rows) ==
    replace(replace(template_content, CSS_TOKEN, css_content), ROWS_TOKEN, table_rows)

\* f"{percent:.1f}%", and "-" for the placeholder row
format_1f(percent) ==
    IF percent.den = 0 THEN Dash
    ELSE LET q == (10 * percent.num) \div percent.den
             r == (10 * percent.num) % percent.den
             tenths == IF 2 * r > percent.den \/ (2 * r = percent.den /\ q % 2 = 1)
                       THEN q + 1 ELSE q
         IN  str(tenths \div 10) \o <<".">> \o str(tenths % 10) \o <<"%">>

\* the <tr> ... </tr> appended to rows_html for a row
row_markup(row) ==
    <<"<tr>", "<td>">> \o row.title
        \o <<"</td>", "<td>">> \o row.done
        \o <<"</td>", "<td>">> \o row.total
        \o <<"</td>", IF row.kind = "missing" THEN "<td>" ELSE "<td class=progress-bar>">>
        \o row.progress
        \o <<"</td>", "<td>">> \o format_1f(row.percent)
        \o <<"</td>", "</tr>">>

RECURSIVE join_rows(_)
\* "\n".join(rows_html)
join_rows(rs) ==
    IF rs = <<>> THEN <<>>
    ELSE IF Len(rs) = 1 THEN row_markup(rs[1])
    ELSE row_markup(rs[1]) \o <<NL>> \o join_rows(Tail(rs))

\* table_rows = "\n".join(rows_html)
table_rows_of(rs) == join_rows(rs)

\* the paths of the template and of the style (the defaults of cli.py)
P_template == <<"t", ".", "h", "t", "m", "l">>
P_css      == <<"s", ".", "c", "s", "s">>

\* a template with one token of each kind, a style without tokens
DefaultTemplate ==
    <<"<style>">> \o CSS_TOKEN \o <<"</style>", "<table>">> \o ROWS_TOKEN \o <<"</table>">>
DefaultCss == <<"t", "d", "{", "}">>

\* the template and the style on disk
AssetFiles(template_content, css_content) ==
    (P_template :> [exists |-> TRUE, readable |-> TRUE, content |-> template_content])
    @@ (P_css :> [exists |-> TRUE, readable |-> TRUE, content |-> css_content])

\* console.export_html(inline_styles=True): the page of the recorded console
RecordedConsoleHtml == <<"<console>">>

(***************************************************************************)
(* SpecParse: parse_checklist on one readable file.                        *)
(***************************************************************************)
L_done    == <<"-", " ", "[", "x", "]", " ", "a">>
L_todo    == <<"-", " ", "[", " ", "]", " ", "b">>
L_upper   == <<"-", " ", "[", "X", "]", " ", "c">>
L_star    == <<"*", " ", "[", "x", "]", " ", "d">>
L_nospace == <<"-", " ", "[", "x", "]">>
L_two     == <<"-", " ", "[", "x", "]", " ", "a", " ", "-", " ", "[", " ", "]", " ", "b">>
L_h1      == <<"#", " ", "T", " ">>
L_h1b     == <<"#", " ", "U">>
L_h2      == <<"#", "#", " ", "S">>
L_nosp_h  == <<"#", "T">>
L_hash_sp == <<"#", " ">>
L_ind_h   == <<" ", "#", " ", "V">>

ParseLines == {L_done, L_todo, L_upper, L_star, L_nospace, L_two,
               L_h1, L_h1b, L_h2, L_nosp_h, L_hash_sp, L_ind_h}

P_plan == <<"p", "l", "a", "n", ".", "m", "d">>
P_sub  == <<"d", "/", "a", ".", "t", ".", "m", "d">>

ParsePaths == {P_plan, P_sub}

RECURSIVE JoinLines(_)
\* the text of a file whose lines are ls, each ended by a newline
JoinLines(ls) == IF ls = <<>> THEN <<>> ELSE Head(ls) \o <<NL>> \o JoinLines(Tail(ls))

SeqsUpTo(S, n) == UNION {[1..k -> S] : k \in 0..n}

ParseContents == {JoinLines(ls) : ls \in SeqsUpTo(ParseLines, MaxLines)}

ReadableFile(c) == [exists |-> TRUE, readable |-> TRUE, content |-> c]

InitParse ==
    /\ prog \in Progs
    /\ requested_view = "table"
    /\ view = "table"
    /\ html_output = FALSE
    /\ template_file = "none"
    /\ css_file = "none"
    /\ config_file = [exists |-> FALSE, lines |-> <<>>]
    /\ \E p \in ParsePaths, c \in ParseContents :
          /\ fs = [q \in {p} |-> ReadableFile(c)]
          /\ markdown_paths = <<p>>
    /\ output_file = "absent"
    /\ output_text = <<>>
    /\ walk = <<>>
    /\ pc = "parse"
    /\ idx = 1
    /\ parsed = NoResult
    /\ rows = <<>>
    /\ tasks = <<>>
    /\ console = <<>>
    /\ exit_status = -1

\* done, total, title = parse_checklist(md_path)
ParseFile ==
    /\ pc = "parse"
    /\ parsed' = parse_checklist(prog, markdown_paths[idx])
    /\ pc' = "parsed"
    /\ UNCHANGED <<walk, output_text, prog, requested_view, view, html_output, template_file, css_file, config_file,
                   fs, output_file, markdown_paths, idx, rows, tasks, console,
                   exit_status>>

NextParse == ParseFile

SpecParse == InitParse /\ [][NextParse]_vars

(***************************************************************************)
(* SpecRender: the rendering of one row, on every 0 <= done <= total.      *)
(***************************************************************************)
T_title == <<"T">>

InitRender ==
    /\ prog \in Progs
    /\ requested_view = "table"
    /\ view = "table"
    /\ html_output = FALSE
    /\ template_file = "none"
    /\ css_file = "none"
    /\ config_file = [exists |-> FALSE, lines |-> <<>>]
    /\ fs = [q \in {P_plan} |-> ReadableFile(<<>>)]
    /\ markdown_paths = <<P_plan>>
    /\ output_file = "absent"
    /\ output_text = <<>>
    /\ walk = <<>>
    /\ pc = "render"
    /\ idx = 1
    /\ \E t \in 0..MaxTotal : \E d \in 0..t :
          parsed = [raised |-> FALSE, done |-> d, total |-> t, title |-> T_title]
    /\ rows = <<>>
    /\ tasks = <<>>
    /\ console = <<>>
    /\ exit_status = -1

\* the row is added, or the exception of its computation ends the run
Rendered(row) ==
    /\ IF row.kind = "raised"
       THEN /\ pc' = "crashed"
            /\ rows' = rows
            /\ console' = Append(console, Traceback("ZeroDivisionError"))
            /\ exit_status' = 1
       ELSE /\ pc' = "rendered"
            /\ rows' = Append(rows, row)
            /\ UNCHANGED <<console, exit_status>>
    /\ UNCHANGED <<walk, output_text, prog, requested_view, view, html_output, template_file, css_file, config_file,
                   fs, output_file, markdown_paths, idx, parsed, tasks>>

\* the loop body of create_table_dashboard after the parse
RenderTableRow ==
    /\ pc = "render"
    /\ prog \in {"md_dashboard", "mdtick"}
    /\ Rendered(table_row(prog, parsed))

\* the loop body of create_html_dashboard after the parse
RenderHtmlRow ==
    /\ pc = "render"
    /\ prog = "md_dashboard"
    /\ Rendered(html_row(parsed))

\* show_progress(done, total, title)
RenderPlainBar ==
    /\ pc = "render"
    /\ prog = "archive"
    /\ Rendered(show_progress(parsed))

NextRender == RenderTableRow \/ RenderHtmlRow \/ RenderPlainBar

SpecRender == InitRender /\ [][NextRender]_vars

(***************************************************************************)
(* Spec: a whole run of an entry point.  The banner and the colours of     *)
(* the console are not modelled.                                           *)
(***************************************************************************)
P_a == <<"a", ".", "m", "d">>
P_b == <<"d", "/", "b", ".", "m", "d">>

RunPaths == {P_a, P_b}

\* the lines of a config file, as iterating the open file yields them
CL_a     == P_a \o <<NL>>
CL_b     == <<" ">> \o P_b \o <<" ", NL>>
CL_blank == <<" ", NL>>

ConfigLines == {CL_a, CL_b, CL_blank}

MissingFile == [exists |-> FALSE, readable |-> FALSE, content |-> <<>>]

\* a file that exists and whose open() or read() raises: no permission, a
\* directory, bytes that are not UTF-8
UnreadableFile == [exists |-> TRUE, readable |-> FALSE, content |-> <<>>]

RunContents == {JoinLines(<<>>),
                JoinLines(<<L_done>>),
                JoinLines(<<L_h1, L_done, L_todo, L_done>>)}

FileStates == {MissingFile, UnreadableFile} \cup {ReadableFile(c) : c \in RunContents}

AssetStates == {"none", "readable", "unreadable"}

Init ==
    /\ prog \in Progs
    /\ requested_view \in {"animated", "table"}
    /\ prog = "archive" => requested_view = "animated"
    /\ view = requested_view
    /\ html_output \in BOOLEAN
    /\ prog = "archive" => ~html_output
    /\ template_file \in AssetStates
    /\ css_file \in AssetStates
    /\ ~(prog = "md_dashboard" /\ html_output) =>
          (template_file = "readable" /\ css_file = "readable")
    /\ output_file \in {"absent", "old"}
    /\ ~html_output => output_file = "absent"
    /\ \/ config_file = [exists |-> FALSE, lines |-> <<>>]
       \/ \E ls \in SeqsUpTo(ConfigLines, MaxConfigLines) :
             config_file = [exists |-> TRUE, lines |-> ls]
    /\ \E f \in [RunPaths -> FileStates] :
          fs = f @@ AssetFiles(DefaultTemplate, DefaultCss)
    /\ output_text = <<>>
    /\ walk = <<>>
    /\ pc = "start"
    /\ markdown_paths = <<>>
    /\ idx = 1
    /\ parsed = NoResult
    /\ rows = <<>>
    /\ tasks = <<>>
    /\ console = <<>>
    /\ exit_status = -1

NonBlank(line) == line # <<>>

\* [Path(line.strip()) for line in f if line.strip()]
read_paths(lines) == SelectSeq([k \in 1..Len(lines) |-> strip(lines[k])], NonBlank)

\* load_markdown_paths(config_file): the paths, and what it printed
load_markdown_paths(cf) ==
    IF ~cf.exists
    THEN [paths |-> <<>>, printed |-> <<Msg("Config file not found", <<>>)>>]
    ELSE [paths |-> read_paths(cf.lines), printed |-> <<>>]

\* main returns: the interpreter exits with status 0
Return ==
    /\ pc' = "done"
    /\ exit_status' = 0

\* an exception leaves main: traceback, status 1
Raise(e) ==
    /\ pc' = "crashed"
    /\ exit_status' = 1
    /\ console' = Append(console, Traceback(e))

\* md_dashboard: cli.main and create_dashboard up to the dispatch
DashboardStart ==
    /\ pc = "start"
    /\ prog = "md_dashboard"
    /\ LET loaded == load_markdown_paths(config_file)
       IN  /\ markdown_paths' = loaded.paths
           /\ IF loaded.paths = <<>>
              THEN /\ console' = console \o loaded.printed \o
                         <<Msg("No markdown files found in the config file", <<>>)>>
                   /\ Return
              ELSE IF html_output
              THEN IF template_file = "none" \/ css_file = "none"
                   THEN /\ console' = Append(console,
                              Msg("Must provide --template-file and --css-file", <<>>))
                        /\ Return
                   ELSE /\ pc' = "html_rows"
                        /\ UNCHANGED <<console, exit_status>>
              ELSE /\ pc' = IF view = "table" THEN "table_rows" ELSE "anim_add"
                   /\ UNCHANGED <<console, exit_status>>
    /\ UNCHANGED <<walk, output_text, prog, requested_view, view, html_output, template_file, css_file,
                   config_file, fs, output_file, idx, parsed, rows, tasks>>

\* mdtick.py: main up to the dispatch of create_dashboard
MdtickStart ==
    /\ pc = "start"
    /\ prog = "mdtick"
    /\ LET warn == html_output /\ view = "animated"
           warned == IF warn
                     THEN Append(console, Msg("Warning: Switching to table view for HTML export", <<>>))
                     ELSE console
           view1 == IF warn THEN "table" ELSE view
       IN  /\ view' = view1
           /\ IF ~config_file.exists
              THEN /\ console' = Append(warned, Msg("Config file not found", <<>>))
                   /\ markdown_paths' = <<>>
                   /\ pc' = "export"
              ELSE /\ markdown_paths' = read_paths(config_file.lines)
                   /\ IF read_paths(config_file.lines) = <<>>
                      THEN /\ console' = Append(warned,
                                 Msg("No markdown files found in the config file", <<>>))
                           /\ pc' = "export"
                      ELSE /\ console' = warned
                           /\ pc' = IF view1 = "table" THEN "table_rows" ELSE "anim_add"
    /\ UNCHANGED <<walk, output_text, prog, requested_view, html_output, template_file, css_file,
                   config_file, fs, output_file, idx, parsed, rows, tasks, exit_status>>

\* archive/dashboard.py: main and create_dashboard up to the loop
ArchiveStart ==
    /\ pc = "start"
    /\ prog = "archive"
    /\ IF ~config_file.exists
       THEN /\ console' = Append(console, Msg("Config file not found", <<>>))
            /\ markdown_paths' = <<>>
            /\ Return
       ELSE /\ markdown_paths' = read_paths(config_file.lines)
            /\ IF read_paths(config_file.lines) = <<>>
               THEN /\ console' = Append(console,
                          Msg("No markdown files found in the config file", <<>>))
                    /\ Return
               ELSE /\ console' = Append(console, Msg("===== Projects Dashboard =====", <<>>))
                    /\ pc' = "plain_rows"
                    /\ UNCHANGED exit_status
    /\ UNCHANGED <<walk, output_text, prog, requested_view, view, html_output, template_file, css_file,
                   config_file, fs, output_file, idx, parsed, rows, tasks>>

\* one iteration of a for loop over markdown_paths that adds a row:
\* a placeholder for a path that does not exist, the row of the parsed file
\* (row) otherwise; an exception of the parse or of the row leaves the loop
\* and main
RowStep(missing_row, row) ==
    LET md_path == markdown_paths[idx]
        result == parse_checklist(prog, md_path)
    IN  IF ~fs[md_path].exists
        THEN /\ rows' = Append(rows, missing_row)
             /\ idx' = idx + 1
             /\ UNCHANGED <<pc, parsed, console, exit_status>>
        ELSE IF result.raised
        THEN /\ Raise("OSError")
             /\ UNCHANGED <<rows, idx, parsed>>
        ELSE /\ parsed' = result
             /\ IF row.kind = "raised"
                THEN /\ Raise("ZeroDivisionError")
                     /\ UNCHANGED <<rows, idx>>
                ELSE /\ rows' = Append(rows, row)
                     /\ idx' = idx + 1
                     /\ UNCHANGED <<pc, console, exit_status>>

\* create_table_dashboard: one iteration of the loop
TableStep ==
    /\ pc = "table_rows"
    /\ idx <= Len(markdown_paths)
    /\ RowStep(table_missing_row(markdown_paths[idx]),
               table_row(prog, parse_checklist(prog, markdown_paths[idx])))
    /\ UNCHANGED <<walk, output_text, prog, requested_view, view, html_output, template_file, css_file,
                   config_file, fs, output_file, markdown_paths, tasks>>

\* create_table_dashboard: console.print(table) after the loop
TablePrint ==
    /\ pc = "table_rows"
    /\ idx > Len(markdown_paths)
    /\ console' = Append(console, Msg("Dashboard", rows))
    /\ IF prog = "mdtick"
       THEN /\ pc' = "export"
            /\ UNCHANGED exit_status
       ELSE Return
    /\ UNCHANGED <<walk, output_text, prog, requested_view, view, html_output, template_file, css_file,
                   config_file, fs, output_file, markdown_paths, idx, parsed, rows,
                   tasks>>

\* create_html_dashboard: one iteration of the loop that gathers rows_html
HtmlStep ==
    /\ pc = "html_rows"
    /\ idx <= Len(markdown_paths)
    /\ RowStep(html_missing_row(markdown_paths[idx]),
               html_row(parse_checklist(prog, markdown_paths[idx])))
    /\ UNCHANGED <<walk, output_text, prog, requested_view, view, html_output, template_file, css_file,
                   config_file, fs, output_file, markdown_paths, tasks>>

\* a plausible slip: the output file is opened for writing before the
\* template and the style are read
HtmlLoadAssetsOpenFirst ==
    /\ pc = "html_rows"
    /\ idx > Len(markdown_paths)
    /\ output_file' = "written"
    /\ output_text' = <<>>
    /\ IF template_file = "unreadable" \/ css_file = "unreadable"
       THEN Raise("FileNotFoundError")
       ELSE /\ pc' = "html_write"
            /\ UNCHANGED <<console, exit_status>>
    /\ UNCHANGED <<walk, prog, requested_view, view, html_output, template_file, css_file,
                   config_file, fs, markdown_paths, idx, parsed, rows, tasks>>

\* create_html_dashboard: template_file.read_text(), css_file.read_text()
HtmlLoadAssets ==
    /\ pc = "html_rows"
    /\ idx > Len(markdown_paths)
    /\ IF template_file = "unreadable" \/ css_file = "unreadable"
       THEN Raise("FileNotFoundError")
       ELSE /\ pc' = "html_write"
            /\ UNCHANGED <<console, exit_status>>
    /\ UNCHANGED <<walk, output_text, prog, requested_view, view, html_output, template_file, css_file,
                   config_file, fs, output_file, markdown_paths, idx, parsed, rows,
                   tasks>>

\* create_html_dashboard: the rows are joined, the template and the style are
\* substituted, the output file is written, the success is printed
HtmlWrite ==
    /\ pc = "html_write"
    /\ output_file' = "written"
    /\ output_text' = final_html_of(fs[P_template].content, fs[P_css].content,
                                    table_rows_of(rows))
    /\ console' = Append(console, Msg("HTML Dashboard created", <<>>))
    /\ Return
    /\ UNCHANGED <<walk, prog, requested_view, view, html_output, template_file, css_file,
                   config_file, fs, markdown_paths, idx, parsed, rows, tasks>>

\* show one bar per path: the loop of create_dashboard in archive/dashboard.py
PlainStep ==
    /\ pc = "plain_rows"
    /\ idx <= Len(markdown_paths)
    /\ LET md_path == markdown_paths[idx]
           result == parse_checklist(prog, md_path)
       IN  IF ~fs[md_path].exists
           THEN /\ console' = Append(console, Msg("File not found", md_path))
                /\ idx' = idx + 1
                /\ UNCHANGED <<pc, parsed, rows, exit_status>>
           ELSE IF result.raised
           THEN /\ Raise("OSError")
                /\ UNCHANGED <<rows, idx, parsed>>
           ELSE /\ parsed' = result
                /\ IF show_progress(result).kind = "raised"
                   THEN /\ Raise("ZeroDivisionError")
                        /\ UNCHANGED <<rows, idx>>
                   ELSE /\ rows' = Append(rows, show_progress(result))
                        /\ idx' = idx + 1
                        /\ UNCHANGED <<pc, console, exit_status>>
    /\ UNCHANGED <<walk, output_text, prog, requested_view, view, html_output, template_file, css_file,
                   config_file, fs, output_file, markdown_paths, tasks>>

\* archive/dashboard.py: the loop is over, main returns
PlainEnd ==
    /\ pc = "plain_rows"
    /\ idx > Len(markdown_paths)
    /\ Return
    /\ UNCHANGED <<walk, output_text, prog, requested_view, view, html_output, template_file, css_file,
                   config_file, fs, output_file, markdown_paths, idx, parsed, rows,
                   tasks, console>>

\* create_animated_dashboard: one iteration of the loop that adds the bars
AnimAddStep ==
    /\ pc = "anim_add"
    /\ idx <= Len(markdown_paths)
    /\ LET md_path == markdown_paths[idx]
           result == parse_checklist(prog, md_path)
       IN  IF ~fs[md_path].exists
           THEN /\ console' = Append(console, Msg("File not found", md_path))
                /\ idx' = idx + 1
                /\ UNCHANGED <<pc, parsed, tasks, exit_status>>
           ELSE IF result.raised
           THEN /\ Raise("OSError")
                /\ UNCHANGED <<tasks, idx, parsed>>
           ELSE /\ parsed' = result
                /\ tasks' = Append(tasks, [project |-> result.title,
                                           total |-> result.total,
                                           completed |-> 0,
                                           done |-> result.done])
                /\ idx' = idx + 1
                /\ UNCHANGED <<pc, console, exit_status>>
    /\ UNCHANGED <<walk, output_text, prog, requested_view, view, html_output, template_file, css_file,
                   config_file, fs, output_file, markdown_paths, rows>>

\* create_animated_dashboard: the first loop is over, the second starts
AnimAddEnd ==
    /\ pc = "anim_add"
    /\ idx > Len(markdown_paths)
    /\ pc' = "anim_advance"
    /\ idx' = 1
    /\ UNCHANGED <<walk, output_text, prog, requested_view, view, html_output, template_file, css_file,
                   config_file, fs, output_file, markdown_paths, parsed, rows, tasks,
                   console, exit_status>>

\* progress.advance(task_id); time.sleep(0.05): one step of range(done),
\* or the step to the next bar when the range is exhausted
AnimAdvance ==
    /\ pc = "anim_advance"
    /\ idx <= Len(tasks)
    /\ IF tasks[idx].completed < tasks[idx].done
       THEN /\ tasks' = [tasks EXCEPT ![idx].completed = @ + 1]
            /\ idx' = idx
       ELSE /\ tasks' = tasks
            /\ idx' = idx + 1
    /\ UNCHANGED <<walk, output_text, prog, requested_view, view, html_output, template_file, css_file,
                   config_file, fs, output_file, pc, markdown_paths, parsed, rows,
                   console, exit_status>>

\* create_animated_dashboard returns
AnimEnd ==
    /\ pc = "anim_advance"
    /\ idx > Len(tasks)
    /\ IF prog = "mdtick"
       THEN /\ pc' = "export"
            /\ UNCHANGED exit_status
       ELSE Return
    /\ UNCHANGED <<walk, output_text, prog, requested_view, view, html_output, template_file, css_file,
                   config_file, fs, output_file, markdown_paths, idx, parsed, rows,
                   tasks, console>>

\* mdtick.py: main after create_dashboard returned: the recorded console is
\* exported when --export-html was given
MdtickExport ==
    /\ pc = "export"
    /\ IF html_output
       THEN /\ output_file' = "written"
            /\ output_text' = RecordedConsoleHtml
            /\ console' = Append(console, Msg("HTML exported", <<>>))
       ELSE UNCHANGED <<output_file, output_text, console>>
    /\ Return
    /\ UNCHANGED <<walk, prog, requested_view, view, html_output, template_file, css_file,
                   config_file, fs, markdown_paths, idx, parsed, rows, tasks>>

Next ==
    \/ DashboardStart
    \/ MdtickStart
    \/ ArchiveStart
    \/ TableStep
    \/ TablePrint
    \/ HtmlStep
    \/ HtmlLoadAssets
    \/ HtmlWrite
    \/ PlainStep
    \/ PlainEnd
    \/ AnimAddStep
    \/ AnimAddEnd
    \/ AnimAdvance
    \/ AnimEnd
    \/ MdtickExport

Spec == Init /\ [][Next]_vars

(***************************************************************************)
(* SpecHtml: create_html_dashboard on templates and styles put together    *)
(* from pieces: the two tokens, a literal, and the two halves of the row   *)
(* token.                                                                  *)
(***************************************************************************)
MaxPieces == 3
MaxRows == 2

ROWS_HEAD == <<"{", "{", " ", "T", "A", "B", "L", "E">>
ROWS_TAIL == <<"_", "R", "O", "W", "S", " ", "}", "}">>

TemplatePieces == {CSS_TOKEN, ROWS_TOKEN, <<"a">>, ROWS_HEAD, ROWS_TAIL}

RECURSIVE Concat(_)
Concat(ps) == IF ps = <<>> THEN <<>> ELSE Head(ps) \o Concat(Tail(ps))

TemplateTexts == {Concat(ps) : ps \in SeqsUpTo(TemplatePieces, MaxPieces)}

CssTexts == {<<>>, <<"c">>, CSS_TOKEN, ROWS_TOKEN}

\* a checklist whose title is the style token
L_h_token == <<"#", " ">> \o CSS_TOKEN

HtmlFiles == (P_a :> MissingFile) @@ (P_b :> ReadableFile(JoinLines(<<L_h_token, L_done, L_todo>>)))

InitHtml ==
    /\ prog = "md_dashboard"
    /\ requested_view = "table"
    /\ view = "table"
    /\ html_output = TRUE
    /\ template_file = "readable"
    /\ css_file = "readable"
    /\ config_file = [exists |-> TRUE, lines |-> <<CL_a>>]
    /\ \E t \in TemplateTexts : \E c \in CssTexts : fs = HtmlFiles @@ AssetFiles(t, c)
    /\ markdown_paths \in SeqsUpTo(DOMAIN HtmlFiles, MaxRows)
    /\ output_file \in {"absent", "old"}
    /\ output_text = <<>>
    /\ walk = <<>>
    /\ pc = "html_rows"
    /\ idx = 1
    /\ parsed = NoResult
    /\ rows = <<>>
    /\ tasks = <<>>
    /\ console = <<>>
    /\ exit_status = -1

NextHtml == HtmlStep \/ HtmlLoadAssets \/ HtmlWrite

SpecHtml == InitHtml /\ [][NextHtml]_vars

(***************************************************************************)
(* scan.py: the scanner.  walk holds the files os.walk yields, as pairs of *)
(* the directory and the file name, in the order os.walk yields them.      *)
(***************************************************************************)
MaxFiles == 2

\* str.lower on the letters of the file names of the model
lower_char(c) ==
    IF c = "M" THEN "m" ELSE IF c = "D" THEN "d" ELSE IF c = "B" THEN "b"
    ELSE IF c = "T" THEN "t" ELSE c

\* filename.lower()
lower(name) == [k \in 1..Len(name) |-> lower_char(name[k])]

\* s.endswith(suffix)
endswith(s, suffix) ==
    /\ Len(suffix) <= Len(s)
    /\ SubSeq(s, Len(s) - Len(suffix) + 1, Len(s)) = suffix

DOT_MD == <<".", "m", "d">>

\* a plausible slip: the case of the name is not folded
is_markdown_cased(filename) == endswith(filename, DOT_MD)

\* filename.lower().endswith(".md")
is_markdown(filename) == endswith(lower(filename), DOT_MD)

\* os.path.join(root, filename)
path_join(root, filename) == root \o <<"/">> \o filename

RECURSIVE find_markdown_files(_)
\* the joined paths of the markdown files among the entries, in their order
find_markdown_files(entries) ==
    IF entries = <<>> THEN <<>>
    ELSE (IF is_markdown(Head(entries).filename)
          THEN <<path_join(Head(entries).root, Head(entries).filename)>>
          ELSE <<>>) \o find_markdown_files(Tail(entries))

RECURSIVE readlines(_, _)
\* the lines iterating an open file yields from index i on, each with its
\* newline when it has one
readlines(s, i) ==
    IF i > Len(s) THEN <<>>
    ELSE LET e == IF LineEnd(s, i) < Len(s) THEN LineEnd(s, i) + 1 ELSE Len(s)
         IN  <<SubSeq(s, i, e)>> \o readlines(s, e + 1)

RECURSIVE skip_space(_, _)
\* \s*: the index after the whitespace that starts at index i
skip_space(line, i) ==
    IF i <= Len(line) /\ line[i] \in Whitespace THEN skip_space(line, i + 1) ELSE i

Bullets == {"-", "*", "+"}
Marks == {"x", "X", " "}

\* pattern.search(line) with ^(\s*[\-\*\+]\s*\[[xX ]\]): the match can only
\* start at index 1, and what follows each \s* is not whitespace
pattern_search(line) ==
    LET b == skip_space(line, 1)
        k == skip_space(line, b + 1)
    IN  /\ k + 2 <= Len(line)
        /\ line[b] \in Bullets
        /\ line[k] = "["
        /\ line[k + 1] \in Marks
        /\ line[k + 2] = "]"

\* file_contains_tasklist, for a file that can be opened and read
some_line_matches(content) ==
    \E k \in 1..Len(readlines(content, 1)) : pattern_search(readlines(content, 1)[k])

\* file_contains_tasklist: the result, FALSE after the except clause
file_contains_tasklist(file_path) ==
    fs[file_path].exists /\ fs[file_path].readable
        /\ some_line_matches(fs[file_path].content)

RECURSIVE written_lines(_)
\* out_f.write(path + "\n") for every path
written_lines(paths) ==
    IF paths = <<>> THEN <<>> ELSE Head(paths) \o <<NL>> \o written_lines(Tail(paths))

\* the files of a walk
R_root == <<"r">>
R_sub  == <<"r", "/", "d">>
ScanEntries == {[root |-> R_root, filename |-> <<"a", ".", "m", "d">>],
                [root |-> R_root, filename |-> <<"B", ".", "M", "D">>],
                [root |-> R_root, filename |-> <<"t", ".", "t", "x", "t">>],
                [root |-> R_root, filename |-> <<"m", "d">>],
                [root |-> R_sub, filename |-> <<"e", ".", "M", "d">>]}

L_plus     == <<"+", " ", "[", " ", "]", " ", "e">>
L_indent   == <<" ", "\t", "*", " ", " ", "[", "X", "]">>
L_nogap    == <<"-", "[", "x", "]">>
L_text     == <<"a", "b">>
L_inline   == <<"x", " ", "-", " ", "[", " ", "]", " ", "b">>
L_empty_cb == <<"-", " ", "[", "]">>

ScanContents == {<<>>,
                 JoinLines(<<L_text>>),
                 JoinLines(<<L_done>>),
                 JoinLines(<<L_text, L_upper>>) \o L_plus,
                 JoinLines(<<L_indent>>),
                 JoinLines(<<L_nogap>>),
                 JoinLines(<<L_inline, L_empty_cb>>),
                 JoinLines(<<<<"-">>, <<"[", "x", "]">>>>)}

ScanFileStates == {MissingFile, UnreadableFile} \cup {ReadableFile(c) : c \in ScanContents}

\* the sequences of distinct entries
Walks == {w \in SeqsUpTo(ScanEntries, MaxFiles) :
             \A i, j \in 1..Len(w) : i # j => w[i] # w[j]}

EntryPath(entry) == path_join(entry.root, entry.filename)

InitScan ==
    /\ prog = "scan"
    /\ requested_view = "table"
    /\ view = "table"
    /\ html_output = FALSE
    /\ template_file = "none"
    /\ css_file = "none"
    /\ config_file = [exists |-> FALSE, lines |-> <<>>]
    /\ walk \in Walks
    /\ fs \in [{EntryPath(walk[k]) : k \in 1..Len(walk)} -> ScanFileStates]
    /\ markdown_paths = <<>>
    /\ output_file \in {"absent", "old"}
    /\ output_text = <<>>
    /\ pc = "scan_find"
    /\ idx = 1
    /\ parsed = NoResult
    /\ rows = <<>>
    /\ tasks = <<>>
    /\ console = <<>>
    /\ exit_status = -1

\* main: md_files = find_markdown_files(args.folder), and the two prints
ScanFind ==
    /\ pc = "scan_find"
    /\ markdown_paths' = find_markdown_files(walk)
    /\ console' = console \o <<Msg("Scanning folder for Markdown files", <<>>),
                               Msg("Found markdown files", str(Len(markdown_paths')))>>
    /\ pc' = "scan_files"
    /\ idx' = 1
    /\ UNCHANGED <<walk, output_text, prog, requested_view, view, html_output, template_file,
                   css_file, config_file, fs, output_file, parsed, rows, tasks, exit_status>>

\* main: one iteration of the loop over md_files; rows holds matching_files
ScanFile ==
    /\ pc = "scan_files"
    /\ idx <= Len(markdown_paths)
    /\ LET file_path == markdown_paths[idx]
       IN  /\ console' = IF fs[file_path].exists /\ fs[file_path].readable
                         THEN console
                         ELSE Append(console, Msg("Error reading file", file_path))
           /\ rows' = IF file_contains_tasklist(file_path)
                      THEN Append(rows, file_path)
                      ELSE rows
    /\ idx' = idx + 1
    /\ UNCHANGED <<walk, output_text, prog, requested_view, view, html_output, template_file,
                   css_file, config_file, fs, output_file, pc, markdown_paths, parsed,
                   tasks, exit_status>>

\* main: the output file is written, the result is printed
ScanWrite ==
    /\ pc = "scan_files"
    /\ idx > Len(markdown_paths)
    /\ output_file' = "written"
    /\ output_text' = written_lines(rows)
    /\ console' = console \o <<Msg("Done! Found Markdown files containing task lists",
                                   str(Len(rows))),
                               Msg("Results written", <<>>)>>
    /\ Return
    /\ UNCHANGED <<walk, prog, requested_view, view, html_output, template_file,
                   css_file, config_file, fs, markdown_paths, idx, parsed, rows, tasks>>

NextScan == ScanFind \/ ScanFile \/ ScanWrite

SpecScan == InitScan /\ [][NextScan]_vars

(***************************************************************************)
(* C1..C3: parse_checklist (checked under SpecParse).                      *)
(***************************************************************************)
RECURSIVE SplitLines(_, _)
\* the lines of a text from index i on, without their newlines
SplitLines(s, i) ==
    IF i > Len(s) THEN <<>>
    ELSE <<SubSeq(s, i, LineEnd(s, i))>> \o SplitLines(s, LineEnd(s, i) + 2)

\* sub occurs in line
ContainsSub(line, sub) ==
    \E i \in 1..(Len(line) - Len(sub) + 1) : SubSeq(line, i, i + Len(sub) - 1) = sub

MarkerDone == <<"-", " ", "[", "x", "]", " ">>
MarkerTodo == <<"-", " ", "[", " ", "]", " ">>

ParsedContent == fs[markdown_paths[idx]].content
ParsedLines == SplitLines(ParsedContent, 1)

\* C1: for every file content, parse_checklist returns integers done and
\* total with 0 <= done <= total.
C1_DoneWithinTotal ==
    pc = "parsed" =>
        /\ ~parsed.raised
        /\ parsed.done \in Nat
        /\ parsed.total \in Nat
        /\ parsed.done <= parsed.total

\* C1 witness: a file with three items, two of them done, has been parsed.
C1_Witness == pc = "parsed" /\ parsed.done = 2 /\ parsed.total = 3

\* C2: total is the number of lines of the content that contain the marker
\* "- [ ] " or "- [x] ", and done is the number of lines that contain the
\* marker "- [x] ".
C2_CountsMarkedLines ==
    pc = "parsed" =>
        /\ parsed.total = Cardinality({k \in 1..Len(ParsedLines) :
              \/ ContainsSub(ParsedLines[k], MarkerTodo)
              \/ ContainsSub(ParsedLines[k], MarkerDone)})
        /\ parsed.done = Cardinality({k \in 1..Len(ParsedLines) :
              ContainsSub(ParsedLines[k], MarkerDone)})

\* the first line of ls, from index k on, that begins with '#' and a space;
\* 0 when there is none
RECURSIVE FirstHeadingLine(_, _)
FirstHeadingLine(ls, k) ==
    IF k > Len(ls) THEN 0
    ELSE IF Len(ls[k]) >= 2 /\ ls[k][1] = "#" /\ ls[k][2] = " " THEN k
    ELSE FirstHeadingLine(ls, k + 1)

\* C3: the title is the trimmed text of the first line that begins with a
\* single '#' followed by a space, and the base name of the file without its
\* extension when the content has no such line.
C3_TitleIsHeadingOrStem ==
    pc = "parsed" =>
        LET k == FirstHeadingLine(ParsedLines, 1)
        IN  parsed.title =
                IF k # 0
                THEN strip(SubSeq(ParsedLines[k], 3, Len(ParsedLines[k])))
                ELSE Stem(markdown_paths[idx])

\* C3, the fallback alone: when no line of the content begins with '#' and a
\* space, the title is the base name of the file without its extension,
\* never absent.
C3_FallbackIsStem ==
    (pc = "parsed" /\ FirstHeadingLine(ParsedLines, 1) = 0) =>
        (parsed.title # None /\ parsed.title = Stem(markdown_paths[idx]))

(***************************************************************************)
(* C4, C5: the percent and the bar of a row (checked under SpecRender).    *)
(***************************************************************************)
\* the number of filled segments of a bar
Filled(bar) == Cardinality({k \in 1..Len(bar) : bar[k] = FULL})

\* the number of dashes of a bar
Dashes(bar) == Cardinality({k \in 1..Len(bar) : bar[k] = "-"})

\* the filled segments of a bar come first
FilledFirst(bar) == \A k \in 1..Len(bar) : bar[k] = FULL <=> k <= Filled(bar)

\* C4: in every render mode the percent of a parsed file is 100*done/total
\* when total > 0 and exactly 0 when total = 0; a file with total = 0 is
\* rendered with an empty bar and never causes a division error.
C4_PercentGuarded ==
    pc \in {"rendered", "crashed"} =>
        /\ pc # "crashed"
        /\ Len(rows) = 1
        /\ ~rows[1].percent.err
        /\ rows[1].percent.den > 0
        /\ parsed.total > 0 =>
              rows[1].percent.num * parsed.total = 100 * parsed.done * rows[1].percent.den
        /\ parsed.total = 0 => (rows[1].percent.num = 0 /\ Filled(rows[1].bar) = 0)

\* C4 witness: a file without checklist items has been rendered.
C4_Witness == pc = "rendered" /\ parsed.total = 0 /\ Len(rows) = 1

\* C5: the table-mode and HTML-mode bar has filled = floor(percent / 5)
\* filled segments followed by dashes, with 0 <= filled <= 20 and
\* filled + dashes = 20; it is completely filled exactly when
\* done = total > 0.
C5_BarInvariant ==
    (pc = "rendered" /\ prog # "archive") =>
        LET bar == rows[1].bar
            floor == IF parsed.total > 0
                     THEN (100 * parsed.done) \div (PercentPerSegment * parsed.total)
                     ELSE 0
        IN  /\ Filled(bar) = floor
            /\ FilledFirst(bar)
            /\ Filled(bar) \in 0..BarWidth
            /\ Filled(bar) + Dashes(bar) = BarWidth
            /\ Len(bar) = BarWidth
            /\ Filled(bar) = BarWidth <=> (parsed.done = parsed.total /\ parsed.total > 0)

\* C5 witness: a partly done file has been rendered as a table or HTML row.
C5_Witness ==
    /\ pc = "rendered"
    /\ prog # "archive"
    /\ parsed.done = 2
    /\ parsed.total = 3
    /\ Filled(rows[1].bar) = 13

(***************************************************************************)
(* C6..C10: a whole run (checked under Spec).                              *)
(***************************************************************************)
Terminated == pc \in {"done", "crashed"}

\* the paths the config lists: blank lines skipped, duplicates kept
ListedPaths == IF config_file.exists THEN read_paths(config_file.lines) ELSE <<>>

\* the run renders in table mode (mdtick.py turns an HTML export into it)
TableMode ==
    \/ prog = "md_dashboard" /\ ~html_output /\ view = "table"
    \/ prog = "mdtick" /\ (view = "table" \/ html_output)

\* the run renders in HTML mode, with a template and a style it can read
HtmlMode ==
    /\ prog = "md_dashboard"
    /\ html_output
    /\ template_file = "readable"
    /\ css_file = "readable"

\* the row the mode of the run computes for a parsed file
ModeRow(p) == IF HtmlMode THEN html_row(p) ELSE table_row(prog, p)

\* row k is the row of the k-th listed path: its placeholder with dashes when
\* the path does not exist, its real row otherwise
RowOfPath(k) ==
    LET md_path == ListedPaths[k]
    IN  IF fs[md_path].exists
        THEN /\ rows[k].kind = "row"
             /\ fs[md_path].readable
             /\ rows[k] = ModeRow(parse_checklist(prog, md_path))
        ELSE /\ rows[k].kind = "missing"
             /\ rows[k].title = PathName(md_path)
             /\ rows[k].done = Dash
             /\ rows[k].total = Dash
             /\ rows[k].progress \in {Dash, EmDash}
             /\ rows[k].percent = NoPercent

\* the table was printed or the HTML file was written
OutputEmitted ==
    IF HtmlMode THEN output_file = "written"
    ELSE \E k \in 1..Len(console) : console[k] = Msg("Dashboard", rows)

\* C6: in table mode and HTML mode the output has exactly one row per path
\* listed in the config, in the listed order: a placeholder row for a path
\* that does not exist, which does not stop the paths after it, and the real
\* row for every existing path.
C6_OneRowPerPath ==
    (Terminated /\ ListedPaths # <<>> /\ (TableMode \/ HtmlMode)) =>
        /\ pc = "done"
        /\ OutputEmitted
        /\ Len(rows) = Len(ListedPaths)
        /\ \A k \in 1..Len(ListedPaths) : RowOfPath(k)

\* every listed path that exists can be read
AllListedReadable ==
    \A k \in 1..Len(ListedPaths) :
        fs[ListedPaths[k]].exists => fs[ListedPaths[k]].readable

\* C6 restricted to the runs in which every listed file that exists can be
\* read: there the rows are as C6 says.
OneRowPerPathWhenReadable == AllListedReadable => C6_OneRowPerPath

\* the diagnostics of a config error, in the order they were printed
IsConfigDiagnostic(m) ==
    m.msg \in {"Config file not found", "No markdown files found in the config file"}

ConfigDiagnostics == SelectSeq(console, IsConfigDiagnostic)

\* no listed file was parsed or rendered
NothingRendered == rows = <<>> /\ tasks = <<>> /\ parsed = NoResult

\* C7: a run fails with ConfigNotFound when the config path does not exist
\* and with EmptyConfig when it has no non-blank line: exactly the diagnostic
\* of that error is reported, no listed file is parsed or rendered, and the
\* exit status is non-zero; a run over a non-empty config exits 0.
C7_ConfigErrors ==
    Terminated =>
        /\ ~config_file.exists =>
              /\ ConfigDiagnostics = <<Msg("Config file not found", <<>>)>>
              /\ NothingRendered
              /\ exit_status # 0
        /\ (config_file.exists /\ ListedPaths = <<>>) =>
              /\ ConfigDiagnostics =
                    <<Msg("No markdown files found in the config file", <<>>)>>
              /\ NothingRendered
              /\ exit_status # 0
        /\ ListedPaths # <<>> => exit_status = 0

\* the run gets to render the listed paths
RenderingRun ==
    /\ ListedPaths # <<>>
    /\ ~(prog = "md_dashboard" /\ html_output
         /\ (template_file # "readable" \/ css_file # "readable"))

\* the listed paths that exist and cannot be read
UnreadableListed ==
    {k \in 1..Len(ListedPaths) :
        fs[ListedPaths[k]].exists /\ ~fs[ListedPaths[k]].readable}

\* a placeholder row or a warning names the path
Noticed(md_path) ==
    \/ \E k \in 1..Len(rows) :
          rows[k].kind = "missing" /\ rows[k].title = PathName(md_path)
    \/ \E k \in 1..Len(console) :
          console[k].msg \in {"File not found", "Read error"} /\ console[k].arg = md_path

\* C8: a listed file that exists but cannot be read is recovered locally:
\* no exception ends the run, a placeholder row or a warning is emitted for
\* that path, and the remaining paths are still processed and rendered.
C8_ReadErrorRecovered ==
    (Terminated /\ RenderingRun /\ UnreadableListed # {}) =>
        /\ pc = "done"
        /\ \A k \in UnreadableListed : Noticed(ListedPaths[k])
        /\ Len(rows) + Len(tasks)
              + Cardinality({k \in 1..Len(console) : console[k].msg = "File not found"})
              >= Len(ListedPaths) - Cardinality(UnreadableListed)

\* HTML export was asked for with a template and a style, one of which
\* cannot be read
AssetUnreadable ==
    /\ prog = "md_dashboard"
    /\ html_output
    /\ template_file # "none"
    /\ css_file # "none"
    /\ template_file = "unreadable" \/ css_file = "unreadable"

IsDowngradeWarning(m) == m.msg = "Warning: Switching to table view for HTML export"

\* C10: when HTML export is requested, the rows are computed with table
\* semantics whatever view was requested and nothing is animated; and when
\* the animated view was requested with it (also by default), a warning
\* about the downgrade is shown.
C10_HtmlDowngradeWarned ==
    (html_output /\ prog \in {"md_dashboard", "mdtick"}) =>
        /\ tasks = <<>>
        /\ pc \notin {"anim_add", "anim_advance"}
        /\ \A k \in 1..Len(rows) : rows[k].kind \in {"row", "missing"}
        /\ (pc = "done" /\ output_file = "written" /\ requested_view = "animated") =>
              \E k \in 1..Len(console) : IsDowngradeWarning(console[k])

(***************************************************************************)
(* C11: the template substitution (checked under SpecHtml).                *)
(***************************************************************************)
TemplateText == fs[P_template].content
CssText == fs[P_css].content

\* the markup of the rows gathered, joined by newlines: stated from the rows
RowMarkup == table_rows_of(rows)

RECURSIVE Substituted(_, _, _, _)
\* the template from index i on, each style token replaced by the style text
\* and each row token by the row markup, every other character kept
Substituted(t, css, markup, i) ==
    IF i > Len(t) THEN <<>>
    ELSE IF MatchAt(t, CSS_TOKEN, i)
         THEN css \o Substituted(t, css, markup, i + Len(CSS_TOKEN))
    ELSE IF MatchAt(t, ROWS_TOKEN, i)
         THEN markup \o Substituted(t, css, markup, i + Len(ROWS_TOKEN))
    ELSE <<t[i]>> \o Substituted(t, css, markup, i + 1)

HtmlExported == prog = "md_dashboard" /\ pc = "done" /\ output_file = "written"

\* C11: the HTML output is the template text with the style token replaced
\* by the text of the style file and the row token replaced by the joined
\* row markup, and nothing else changed; when the template has no row token
\* the export still succeeds, the row markup is absent from the output and
\* the style token is still substituted.
C11_TemplateSubstituted ==
    HtmlExported =>
        /\ output_text = Substituted(TemplateText, CssText, RowMarkup, 1)
        /\ ~ContainsSub(TemplateText, ROWS_TOKEN) =>
              /\ exit_status = 0
              /\ rows # <<>> => ~ContainsSub(output_text, RowMarkup)
              /\ output_text = Substituted(TemplateText, CssText, <<>>, 1)

\* the style text brings no row token, and taking an empty style out of the
\* template joins no two halves of a row token
TokensApart ==
    /\ ~ContainsSub(CssText, ROWS_TOKEN)
    /\ CssText = <<>> => ~ContainsSub(TemplateText, ROWS_HEAD \o CSS_TOKEN)

\* C11, for a style and a template whose tokens stay apart: the claim holds
C11_SubstitutedWhenTokensApart ==
    TokensApart => C11_TemplateSubstituted

\* C11: an export always succeeds once the template and the style are read
C11_ExportSucceeds ==
    (HtmlExported /\ html_output) =>
        /\ exit_status = 0
        /\ console[Len(console)] = Msg("HTML Dashboard created", <<>>)

(***************************************************************************)
(* C12: the animated mode (checked under Spec).                            *)
(***************************************************************************)
\* the run shows the animated bars
AnimatedMode ==
    /\ prog \in {"md_dashboard", "mdtick"}
    /\ view = "animated"
    /\ ~html_output

IsListedFile(md_path) == fs[md_path].exists
IsListedMissing(md_path) == ~fs[md_path].exists

\* the listed paths that exist, and those that do not, in the listed order
ExistingListed == SelectSeq(ListedPaths, IsListedFile)
MissingListed == SelectSeq(ListedPaths, IsListedMissing)

IsNotFound(m) == m.msg = "File not found"

\* the inline warnings printed so far, in order
NotFoundWarnings == SelectSeq(console, IsNotFound)

\* at every moment 0 <= completed <= done <= total for every bar
BarsWithinBounds ==
    \A k \in 1..Len(tasks) :
        /\ 0 <= tasks[k].completed
        /\ tasks[k].completed <= tasks[k].done
        /\ tasks[k].done <= tasks[k].total

\* while the bars are created none has been advanced
BarsCreatedEmpty ==
    pc = "anim_add" => \A k \in 1..Len(tasks) : tasks[k].completed = 0

\* bar k is the bar of the k-th existing listed path, filled up to done
BarOfPath(k) ==
    LET md_path == ExistingListed[k]
        p == parse_checklist(prog, md_path)
    IN  /\ fs[md_path].readable
        /\ tasks[k].project = p.title
        /\ tasks[k].total = p.total
        /\ tasks[k].done = p.done
        /\ tasks[k].completed = p.done

\* the run ended with one full bar per existing path and one warning per
\* missing path, both in the listed order
BarsAtEnd ==
    /\ pc = "done"
    /\ Len(tasks) = Len(ExistingListed)
    /\ \A k \in 1..Len(ExistingListed) : BarOfPath(k)
    /\ Len(NotFoundWarnings) = Len(MissingListed)
    /\ \A k \in 1..Len(MissingListed) : NotFoundWarnings[k].arg = MissingListed[k]

\* C12: in animated mode every existing listed path gets one progress bar,
\* created in listed order with completed = 0 and its parsed total, and every
\* missing path gets an inline warning and no bar; every bar keeps
\* 0 <= completed <= done <= total at every moment, and the run ends with
\* every bar at completed = done.
C12_AnimatedBars ==
    (AnimatedMode /\ ListedPaths # <<>>) =>
        /\ BarsWithinBounds
        /\ BarsCreatedEmpty
        /\ Terminated => BarsAtEnd

\* C12 restricted to the runs in which every listed file that exists can be
\* read: there the bars are as C12 says.
C12_BarsWhenReadable == AllListedReadable => C12_AnimatedBars

\* C12: a bar is advanced by exactly one step at a time, one bar per step,
\* and a bar once created keeps its total
C12_OneStepAtATime ==
    [][\A k \in 1..Len(tasks) :
          /\ k <= Len(tasks')
          /\ tasks'[k].total = tasks[k].total
          /\ tasks'[k].completed \in {tasks[k].completed, tasks[k].completed + 1}
          /\ tasks'[k].completed # tasks[k].completed =>
                \A j \in 1..Len(tasks) : j # k => tasks'[j] = tasks[j]]_vars

RECURSIVE StepsLeft(_)
\* the steps the second loop still takes from bar k on: one per task left to
\* advance, and one to pass each bar
StepsLeft(k) ==
    IF k > Len(tasks) THEN 0
    ELSE tasks[k].done - tasks[k].completed + 1 + StepsLeft(k + 1)

\* the loop the run is in, and the steps the loop still takes
AnimPhase == IF pc = "anim_add" THEN 2 ELSE IF pc = "anim_advance" THEN 1 ELSE 0
AnimLeft ==
    IF pc = "anim_add" THEN Len(markdown_paths) + 1 - idx
    ELSE IF pc = "anim_advance" THEN StepsLeft(idx)
    ELSE 0

\* C12: the animation ends: every step of the two loops either leaves its
\* loop or leaves it fewer steps to take, and the count is never negative
C12_AnimationEnds ==
    [][/\ AnimLeft >= 0
       /\ AnimPhase > 0 =>
             \/ AnimPhase' < AnimPhase
             \/ AnimPhase' = AnimPhase /\ AnimLeft' < AnimLeft /\ AnimLeft' >= 0]_vars

(***************************************************************************)
(* C13: the scanner (checked under SpecScan).                              *)
(***************************************************************************)
\* the endings of a name that ends in .md, whatever the case
MdEndings == {<<".", "m", "d">>, <<".", "M", "d">>, <<".", "m", "D">>, <<".", "M", "D">>}

NameEndsInMd(name) ==
    Len(name) >= 3 /\ SubSeq(name, Len(name) - 2, Len(name)) \in MdEndings

\* the line starts with a whitespace characters, one of - * +, then g
\* whitespace characters, then "[", one of x X space, "]"
TaskLineWith(line, a, g) ==
    /\ a + g + 4 <= Len(line)
    /\ \A i \in 1..a : line[i] \in {" ", "\t"}
    /\ line[a + 1] \in {"-", "*", "+"}
    /\ \A i \in (a + 2)..(a + 1 + g) : line[i] \in {" ", "\t"}
    /\ line[a + g + 2] = "["
    /\ line[a + g + 3] \in {"x", "X", " "}
    /\ line[a + g + 4] = "]"

\* a task line, with at least min_gap whitespace characters after the bullet
IsTaskLine(line, min_gap) ==
    \E a \in 0..Len(line) : \E g \in min_gap..Len(line) : TaskLineWith(line, a, g)

\* the file of the entry can be read
Readable(entry) == fs[EntryPath(entry)].exists /\ fs[EntryPath(entry)].readable

\* the entry is a .md file that can be read and has a task line
HasTaskLine(entry, min_gap) ==
    /\ NameEndsInMd(entry.filename)
    /\ Readable(entry)
    /\ \E k \in 1..Len(SplitLines(fs[EntryPath(entry)].content, 1)) :
          IsTaskLine(SplitLines(fs[EntryPath(entry)].content, 1)[k], min_gap)

RECURSIVE PathsWithTaskLine(_, _)
\* the paths of the entries with a task line, in the order of the entries
PathsWithTaskLine(entries, min_gap) ==
    IF entries = <<>> THEN <<>>
    ELSE (IF HasTaskLine(Head(entries), min_gap)
          THEN <<EntryPath(Head(entries))>> ELSE <<>>)
         \o PathsWithTaskLine(Tail(entries), min_gap)

\* the .md file of the entry could not be read and the scan said so
Reported(entry) ==
    \E k \in 1..Len(console) :
        console[k] = Msg("Error reading file", EntryPath(entry))

\* the scanner has ended: it always ends normally, its output file holds, one
\* per line and in walk order, exactly the paths with a task line, and every
\* .md file that cannot be read was reported
ScannerOutput(min_gap) ==
    (prog = "scan" /\ Terminated) =>
        /\ pc = "done"
        /\ exit_status = 0
        /\ output_file = "written"
        /\ SplitLines(output_text, 1) = PathsWithTaskLine(walk, min_gap)
        /\ output_text # <<>> => output_text[Len(output_text)] = NL
        /\ \A k \in 1..Len(walk) :
              (NameEndsInMd(walk[k].filename) /\ ~Readable(walk[k])) => Reported(walk[k])

\* C13 as stated: the scanner writes, one per line and in walk order, exactly
\* the files whose name ends in .md (whatever the case) that have a line of
\* optional leading whitespace, one of - * +, whitespace, "[", one of
\* x X space, "]"; a .md file with no such line is never written; a file that
\* cannot be read is reported, left out, and does not stop the scan.
C13_ScannerOutputGapRequired == ScannerOutput(1)

\* C13, amended: as stated, except that the whitespace between the bullet
\* and "[" is optional too: a line such as "-[x]" counts.
C13_ScannerOutput == ScannerOutput(0)

\* C13 witness: a scan of two .md files ended; the first could not be read
\* and was reported, the second, found whatever the case of its name, has a
\* task line and is the one line of the output.
C13_Witness ==
    /\ prog = "scan"
    /\ pc = "done"
    /\ Len(walk) = 2
    /\ ~Readable(walk[1])
    /\ Reported(walk[1])
    /\ walk[2].filename = <<"B", ".", "M", "D">>
    /\ output_text = EntryPath(walk[2]) \o <<NL>>

====
